---- MODULE Spec2Model ----
(***************************************************************************)
(* Tile resolution, caching and rendering pipeline of geo-map-fe:          *)
(*   GeoTIFFCache          src/src/components/GeoTIFFCache.ts              *)
(*   GeoTiffLayer          src/src/components/GeoTiffLayer.tsx             *)
(*   S3TileManager (index) src/src/App.tsx                                 *)
(*   ForestLossColors      src/src/components/ForestLossColors.ts          *)
(*   S3FileDiscovery       src/src/App.tsx (loadTileManifest)              *)
(*   download_tifs         src/download_tifs.js                            *)
(* JavaScript runs one job at a time: every action below is one job (a     *)
(* call up to its first suspension, a promise continuation, or an image    *)
(* load/error callback).                                                   *)
(***************************************************************************)
EXTENDS Integers, Sequences, FiniteSets, TLC

VARIABLES
  cache,             \* GeoTIFFCache.cache: url -> [lastAccessed, size]
  currentCacheSize,  \* GeoTIFFCache.currentCacheSize (bytes)
  maxCacheSize,      \* GeoTIFFCache.maxCacheSize (bytes)
  calls,             \* loadTiff invocations: caller slot -> [pc, url, result]
  fetches,           \* number of network transfers started so far
  log,               \* urls of the loadTiff calls that resolved, in order, since the last clear
  overlap,           \* TRUE once a loadTiff call started while another was pending
  ncalls,            \* number of loadTiff calls so far
  tiles,             \* TileSpatialIndex.tiles: the registered descriptors, in order
  loadingTiles,      \* GeoTiffLayer.loadingTiles: set of "z/x/y" keys
  loadedTileCount,   \* GeoTiffLayer.loadedTileCount
  req,               \* createTile calls: request -> [pc, coords, ctx, done, err, drawn, fetched,
                     \*   failed, sources, dest]
  query,             \* the last call of a pure function, with its arguments
  answer,            \* what that call returned
  disk,              \* download_tifs: file of OUTPUT_DIR -> "partial" | "complete"
  run,               \* download_tifs: main() [pc, runs, urls, successful, failed]
  tasks,             \* download_tifs: the downloadFile task of each url [pc, status]
  validManifest,     \* download_tifs: valid_manifest.txt [written, lines]
  failedDownloads    \* download_tifs: failed_downloads.txt [written, lines]

cacheVars == <<cache, currentCacheSize, maxCacheSize>>
clientVars == <<calls, fetches, log, overlap, ncalls>>
layerVars == <<tiles, loadingTiles, loadedTileCount, req>>
pureVars == <<query, answer>>
scriptVars == <<disk, run, tasks, validManifest, failedDownloads>>
vars == <<cache, currentCacheSize, maxCacheSize, calls, fetches, log, overlap, ncalls,
          tiles, loadingTiles, loadedTileCount, req, query, answer,
          disk, run, tasks, validManifest, failedDownloads>>

(***************************************************************************)
(* Bounds                                                                  *)
(***************************************************************************)
MaxCallers == 2
MaxCalls == 4

Callers == 1..MaxCallers

(***************************************************************************)
(* Locators.  A url is kept as its stem and its extension, so that the     *)
(* test url.toLowerCase().endsWith(".png") is computed, not assumed.       *)
(***************************************************************************)
toLowerCase(s) ==
  CASE s = "PNG" -> "png"
    [] s = "Png" -> "png"
    [] s = "TIF" -> "tif"
    [] OTHER -> s

endsWithPng(url) == toLowerCase(url.ext) = "png"

UrlA == [stem |-> "a", ext |-> "tif"]
UrlB == [stem |-> "b", ext |-> "tif"]
UrlC == [stem |-> "c", ext |-> "TIF"]
UrlP == [stem |-> "p", ext |-> "PNG"]
Urls == {UrlA, UrlB, UrlC, UrlP}

(***************************************************************************)
(* GeoTIFFCache                                                            *)
(***************************************************************************)
estimatedTiffSize == 10 * 1024 * 1024

\* new GeoTIFFCache(maxCacheSizeMB): the sizes a direct client constructs it
\* with.  20 holds exactly two entries of the estimated size; 5 holds none.
\* (GeoTiffLayer passes 200, the default: see Init.)
CacheSizesMB == {5, 20}

RECURSIVE SumSizes(_, _)
SumSizes(c, keys) ==
  IF keys = {} THEN 0
  ELSE LET k == CHOOSE x \in keys : TRUE
       IN c[k].size + SumSizes(c, keys \ {k})

\* sum(entry.size for entry in cache)
CacheBytes(c) == SumSizes(c, DOMAIN c)

\* evictIfNeeded: entries sorted by lastAccessed (Array.sort is stable, so
\* ties keep the Map's insertion order, which the entry's seq field records),
\* deleted oldest first until currentCacheSize + requiredSpace fits.
Older(c, a, b) ==
  \/ c[a].lastAccessed < c[b].lastAccessed
  \/ c[a].lastAccessed = c[b].lastAccessed /\ c[a].seq < c[b].seq

Oldest(c) == CHOOSE a \in DOMAIN c : \A b \in DOMAIN c \ {a} : Older(c, a, b)

Without(c, k) == [u \in DOMAIN c \ {k} |-> c[u]]

RECURSIVE evictIfNeeded(_, _, _, _)
evictIfNeeded(c, size, max, requiredSpace) ==
  IF size + requiredSpace <= max \/ DOMAIN c = {}
  THEN [cache |-> c, currentCacheSize |-> size]
  ELSE LET k == Oldest(c)
       IN evictIfNeeded(Without(c, k), size - c[k].size, max, requiredSpace)

\* What a resolved loadTiff(url) leaves in the cache with a lax edit of the
\* method: the payload is stored under its url, no room being made first.
loadTiffStoreUnbounded(c, size, max, url) ==
  [cache |-> [u \in DOMAIN c \cup {url} |->
                IF u = url
                THEN [lastAccessed |-> 0, seq |-> Cardinality(DOMAIN c), size |-> estimatedTiffSize]
                ELSE c[u]],
   currentCacheSize |-> IF url \in DOMAIN c THEN size ELSE size + estimatedTiffSize]

\* What a resolved loadTiff(url) leaves in the cache when the method stores
\* the payload and adds the estimated size whether or not the url was
\* already stored (two loads of one url that both missed).
loadTiffStoreCountAgain(c, size, max, url) ==
  [cache |-> [u \in DOMAIN c \cup {url} |->
                IF u = url
                THEN [lastAccessed |-> 0, seq |-> Cardinality(DOMAIN c), size |-> estimatedTiffSize]
                ELSE c[u]],
   currentCacheSize |-> size + estimatedTiffSize]

\* What a resolved loadTiff(url) leaves in the cache with another lax edit:
\* room is made by evictIfNeeded, asked for the whole budget instead of the
\* estimated size of one entry, and the payload is then stored.
loadTiffStoreEvictAll(c, size, max, url) ==
  LET room == evictIfNeeded(c, size, max, max)
  IN [cache |-> [u \in DOMAIN room.cache \cup {url} |->
                   IF u = url
                   THEN [lastAccessed |-> 0, seq |-> Cardinality(DOMAIN room.cache),
                         size |-> estimatedTiffSize]
                   ELSE room.cache[u]],
      currentCacheSize |-> IF url \in DOMAIN room.cache
                           THEN room.currentCacheSize
                           ELSE room.currentCacheSize + estimatedTiffSize]

\* What a resolved loadTiff(url) leaves in the cache: the method returns the
\* image or the rasters and touches neither this.cache nor
\* this.currentCacheSize, and it never calls evictIfNeeded.
loadTiffStore(c, size, max, url) ==
  [cache |-> c, currentCacheSize |-> size]

\* The value a resolved loadTiff(url) hands to its caller.
loadTiffPayload(url) ==
  IF endsWithPng(url) THEN "HTMLImageElement" ELSE "ReadRasterResult"

FreeCall == [pc |-> "free", url |-> UrlA, result |-> "none"]

Pending(c) == calls[c].pc = "fetching"

InitCache ==
  /\ cache = <<>>
  /\ currentCacheSize = 0
  /\ \E mb \in CacheSizesMB : maxCacheSize = mb * 1024 * 1024

InitClients ==
  /\ calls = [c \in Callers |-> FreeCall]
  /\ fetches = 0
  /\ log = <<>>
  /\ overlap = FALSE
  /\ ncalls = 0


\* loadTiff(url) up to its first suspension: the image's src is set, or
\* fromUrl(url) is called; either starts the transfer at once.  Nothing is
\* looked up in this.cache first.
loadTiff(c, url) ==
  /\ calls[c].pc = "free"
  /\ ncalls < MaxCalls
  /\ calls' = [calls EXCEPT ![c] = [pc |-> "fetching", url |-> url, result |-> "none"]]
  /\ fetches' = fetches + 1
  /\ overlap' = (overlap \/ \E d \in Callers \ {c} : Pending(d))
  /\ ncalls' = ncalls + 1
  /\ UNCHANGED <<cache, currentCacheSize, maxCacheSize, log>>

\* img.onload fires, or fromUrl, getImage and readRasters all resolve.
loadTiffResolve(c) ==
  /\ Pending(c)
  /\ LET after == loadTiffStore(cache, currentCacheSize, maxCacheSize, calls[c].url)
     IN /\ cache' = after.cache
        /\ currentCacheSize' = after.currentCacheSize
  /\ calls' = [calls EXCEPT ![c].pc = "resolved", ![c].result = loadTiffPayload(calls[c].url)]
  /\ log' = Append(log, calls[c].url)
  /\ UNCHANGED <<maxCacheSize, fetches, overlap, ncalls>>

\* img.onerror fires, or fromUrl, getImage or readRasters throws: nothing in
\* loadTiff catches it, so the promise it returned rejects.
loadTiffReject(c) ==
  /\ Pending(c)
  /\ calls' = [calls EXCEPT ![c].pc = "rejected", ![c].result = "error"]
  /\ UNCHANGED <<cache, currentCacheSize, maxCacheSize, fetches, log, overlap, ncalls>>

\* A client of the cache takes the settled promise's outcome.
settled(c) ==
  /\ calls[c].pc \in {"resolved", "rejected"}
  /\ calls' = [calls EXCEPT ![c] = FreeCall]
  /\ UNCHANGED <<cache, currentCacheSize, maxCacheSize, fetches, log, overlap, ncalls>>

\* clear()
clear ==
  /\ cache' = <<>>
  /\ currentCacheSize' = 0
  /\ log' = <<>>
  /\ overlap' = \E d \in Callers : Pending(d)
  /\ UNCHANGED <<maxCacheSize, calls, fetches, ncalls>>

(***************************************************************************)
(* Layer and pure-function state, as left alone by the cache's clients     *)
(***************************************************************************)
IdleReq == [pc |-> "idle", coords |-> [z |-> 0, x |-> 0, y |-> 0], ctx |-> TRUE,
            done |-> 0, err |-> FALSE, drawn |-> "none", fetched |-> FALSE, failed |-> FALSE,
            sources |-> {}, dest |-> <<>>]

InitLayerIdle ==
  /\ tiles = <<>>
  /\ loadingTiles = {}
  /\ loadedTileCount = 0
  /\ req = [r \in Callers |-> IdleReq]

InitPureIdle ==
  /\ query = [op |-> "none"]
  /\ answer = <<>>

\* download_tifs.js has not been run: OUTPUT_DIR holds no file.
NoFile == [written |-> FALSE, lines |-> <<>>]

InitScriptIdle ==
  /\ disk = <<>>
  /\ run = [pc |-> "idle", runs |-> 0, urls |-> <<>>, successful |-> <<>>, failed |-> <<>>]
  /\ tasks = <<>>
  /\ validManifest = NoFile
  /\ failedDownloads = NoFile

(***************************************************************************)
(* SpecCache: a GeoTIFFCache used directly by MaxCallers concurrent        *)
(* clients.                                                                *)
(***************************************************************************)
InitCacheClients ==
  InitCache /\ InitClients /\ InitLayerIdle /\ InitPureIdle /\ InitScriptIdle

NextCache ==
  \/ \E c \in Callers, url \in Urls : loadTiff(c, url) /\ UNCHANGED <<layerVars, pureVars, scriptVars>>
  \/ \E c \in Callers : loadTiffResolve(c) /\ UNCHANGED <<layerVars, pureVars, scriptVars>>
  \/ \E c \in Callers : loadTiffReject(c) /\ UNCHANGED <<layerVars, pureVars, scriptVars>>
  \/ \E c \in Callers : settled(c) /\ UNCHANGED <<layerVars, pureVars, scriptVars>>
  \/ clear /\ UNCHANGED <<layerVars, pureVars, scriptVars>>

SpecCache == InitCacheClients /\ [][NextCache]_vars

Range(s) == {s[i] : i \in 1..Len(s)}

(***************************************************************************)
(* Claims about the cache                                                  *)
(***************************************************************************)

\* C1: whenever one entry of the estimated size fits the budget, the sizes of
\* the entries the cache holds sum to at most maxCacheSize, after any
\* sequence of loadTiff and clear calls.
C1_BudgetInvariant ==
  estimatedTiffSize <= maxCacheSize => CacheBytes(cache) <= maxCacheSize

\* C1 witness: three different locators have been loaded successfully into a
\* cache whose budget is two entries, with no clear since.
C1_Witness ==
  /\ maxCacheSize = 2 * estimatedTiffSize
  /\ Cardinality(Range(log)) >= 3
  /\ \A c \in Callers : ~Pending(c)

\* A cache that holds one entry of the estimated size for each of the first
\* n of three urls, stored in that order.
CacheOf(n) ==
  LET order == <<UrlA, UrlB, UrlC>>
  IN [u \in {order[i] : i \in 1..n} |->
        [lastAccessed |-> 0,
         seq |-> (CHOOSE i \in 1..n : order[i] = u) - 1,
         size |-> estimatedTiffSize]]

\* C26: currentCacheSize equals the sum of the sizes of the entries the cache
\* holds and is never negative, after any sequence of loadTiff and clear
\* calls; and evictIfNeeded, run on a cache whose counter is right, leaves
\* the counter right and not negative.
C26_SizeCounter ==
  /\ currentCacheSize = CacheBytes(cache)
  /\ currentCacheSize >= 0
  /\ \A n \in {1, 3} :
       LET c == CacheOf(n)
           room == evictIfNeeded(c, CacheBytes(c), maxCacheSize, estimatedTiffSize)
       IN /\ room.currentCacheSize = CacheBytes(room.cache)
          /\ room.currentCacheSize >= 0
          /\ DOMAIN room.cache \subseteq DOMAIN c

\* C26 witness: two loads of one url that were pending together have both
\* resolved.
C26_Witness ==
  /\ overlap
  /\ Len(log) >= 2
  /\ log[1] = log[2]
  /\ \A c \in Callers : ~Pending(c)

\* C2 (as claimed): single-flight; while a load of a locator is pending, a
\* further loadTiff of that locator starts no second fetch of it.
C2_SingleFlight ==
  [][\A c \in Callers :
       (/\ ~Pending(c)
        /\ Pending(c)'
        /\ \E d \in Callers \ {c} : Pending(d) /\ calls[d].url = calls'[c].url)
         => fetches' = fetches]_vars

\* C3 (as claimed): cache hit; once a locator has been loaded successfully and
\* the cache has not been cleared since, loadTiff of it starts no fetch.
C3_CacheHitNoFetch ==
  [][\A c \in Callers :
       (~Pending(c) /\ Pending(c)' /\ calls'[c].url \in Range(log))
         => fetches' = fetches]_vars

\* C4 (as claimed): LRU order; with a budget of exactly two entries, the
\* sequential loads A, B, A, C leave A in the cache and B evicted.
C4_LRUScenario ==
  (/\ maxCacheSize = 2 * estimatedTiffSize
   /\ ~overlap
   /\ log = <<UrlA, UrlB, UrlA, UrlC>>)
    => (UrlA \in DOMAIN cache /\ UrlB \notin DOMAIN cache)

\* C5 (as claimed): a failed fetch or decode makes loadTiff return a failure
\* value (the promise resolves, it does not reject), leaves the cache's
\* entries and size as they were, and a later loadTiff of the locator
\* fetches again.
C5_FailureContract ==
  [][\A c \in Callers :
       /\ (Pending(c) /\ calls'[c].result = "error")
            => /\ calls'[c].pc = "resolved"
               /\ cache' = cache
               /\ currentCacheSize' = currentCacheSize
       /\ (~Pending(c) /\ Pending(c)') => fetches' = fetches + 1]_vars

(***************************************************************************)
(* S3TileManager: the tile index.  A descriptor is [url, bbox]; bbox is     *)
(* <<west, north, east, south>>, or <<>> when the optional field is absent. *)
(* The result of a lookup that may find nothing is <<tile>> or <<>> (null). *)
(***************************************************************************)
hasBbox(tile) == tile.bbox # <<>>

contains(tile, lat, lng) ==
  LET west == tile.bbox[1]
      north == tile.bbox[2]
      east == tile.bbox[3]
      south == tile.bbox[4]
  IN lng >= west /\ lng <= east /\ lat >= south /\ lat <= north

\* A lookup that tests the longitude only.
RECURSIVE findTileByLongitude(_, _, _)
findTileByLongitude(lat, lng, availableTiles) ==
  IF availableTiles = <<>> THEN <<>>
  ELSE LET tile == Head(availableTiles)
       IN IF hasBbox(tile) /\ lng >= tile.bbox[1] /\ lng <= tile.bbox[3]
          THEN <<tile>>
          ELSE findTileByLongitude(lat, lng, Tail(availableTiles))

\* A lookup that keeps scanning and returns the last descriptor that matches.
RECURSIVE findLastTileForCoordinates(_, _, _)
findLastTileForCoordinates(lat, lng, availableTiles) ==
  IF availableTiles = <<>> THEN <<>>
  ELSE LET tile == availableTiles[Len(availableTiles)]
       IN IF hasBbox(tile) /\ contains(tile, lat, lng)
          THEN <<tile>>
          ELSE findLastTileForCoordinates(lat, lng, SubSeq(availableTiles, 1, Len(availableTiles) - 1))

RECURSIVE findTileForCoordinates(_, _, _)
findTileForCoordinates(lat, lng, availableTiles) ==
  IF availableTiles = <<>> THEN <<>>
  ELSE LET tile == Head(availableTiles)
       IN IF hasBbox(tile) /\ contains(tile, lat, lng)
          THEN <<tile>>
          ELSE findTileForCoordinates(lat, lng, Tail(availableTiles))

\* An overlap test with open intervals: boxes that only touch do not count.
intersectsOpen(tile, bounds) ==
  /\ tile.bbox[3] > bounds.west
  /\ tile.bbox[1] < bounds.east
  /\ tile.bbox[2] > bounds.south
  /\ tile.bbox[4] < bounds.north

intersects(tile, bounds) ==
  LET west == tile.bbox[1]
      north == tile.bbox[2]
      east == tile.bbox[3]
      south == tile.bbox[4]
  IN /\ east >= bounds.west
     /\ west <= bounds.east
     /\ north >= bounds.south
     /\ south <= bounds.north

findTilesForBounds(bounds, availableTiles) ==
  SelectSeq(availableTiles, LAMBDA tile : hasBbox(tile) /\ intersects(tile, bounds))

\* TileSpatialIndex
getTile(lat, lng) == findTileForCoordinates(lat, lng, tiles)

getTilesForBounds(bounds) == findTilesForBounds(bounds, tiles)

(***************************************************************************)
(* GeoTiffLayer.  Angles are in thousandths of a degree.                   *)
(***************************************************************************)
RECURSIVE Pow2(_)
Pow2(z) == IF z = 0 THEN 1 ELSE 2 * Pow2(z - 1)

\* The latitude of the Web Mercator row edge at k/8 of the world's height:
\* (180 / PI) * atan(sinh(PI - 2 * PI * k / 8)), to the nearest even
\* thousandth (so that the centre of two edges is exact).
MercatorLat(k) ==
  <<85052, 79172, 66514, 40980, 0, -40980, -66514, -79172, -85052>>[k + 1]

getTileBounds(coords) ==
  LET tileSizeDegrees == 360000 \div Pow2(coords.z)
      west == coords.x * tileSizeDegrees - 180000
      east == west + tileSizeDegrees
      north == MercatorLat((8 * coords.y) \div Pow2(coords.z))
      south == MercatorLat((8 * (coords.y + 1)) \div Pow2(coords.z))
  IN [north |-> north, south |-> south, east |-> east, west |-> west]

\* `${coords.z}/${coords.x}/${coords.y}`
tileKeyOf(coords) == <<coords.z, coords.x, coords.y>>

\* The grid cells the display surface asks for.
ZoomLevels == {0, 1}
GridCoords ==
  UNION {{[z |-> z, x |-> x, y |-> y] : x \in 0..(Pow2(z) - 1), y \in 0..(Pow2(z) - 1)} :
         z \in ZoomLevels}

\* The manifests the index is built from.
TileNW == [url |-> UrlP, bbox |-> <<-180000, 90000, 0, 0>>]
TileNE == [url |-> UrlA, bbox |-> <<10000, 90000, 180000, 10000>>]
TileSE == [url |-> UrlB, bbox |-> <<0, 0, 180000, -90000>>]
TileSW == [url |-> UrlC, bbox |-> <<-180000, -10000, 0, -90000>>]
TileNoBbox == [url |-> UrlB, bbox |-> <<>>]
TileDot == [url |-> UrlP, bbox |-> <<0, 0, 0, 0>>]
TileEx == [url |-> UrlP, bbox |-> <<-10000, 10000, 0, 0>>]
TileDotTif == [url |-> UrlA, bbox |-> <<0, 0, 0, 0>>]
Manifests ==
  { <<TileNW, TileNE, TileSE, TileSW>>,
    <<TileSE, TileNW>>,
    <<TileNoBbox, TileSW, TileNE>>,
    <<TileDot, TileNE>>,
    <<TileEx>>,
    <<TileDotTif>>,
    <<>> }

\* The descriptor loadAndRenderTile finds for a grid cell: the one at the
\* centre of the cell's bounds.
centerTile(coords) ==
  LET bounds == getTileBounds(coords)
      centerLat == (bounds.north + bounds.south) \div 2
      centerLng == (bounds.east + bounds.west) \div 2
  IN getTile(centerLat, centerLng)

\* tiff.getImage exists on a GeoTIFF only; loadTiff hands back the rasters.
hasGetImage(payload) == payload = "GeoTIFF"

\* done(error, canvas) called by request r, whose outcome is recorded; the
\* canvas is as createTile made it (nothing drawn) unless the caller of this
\* operator records a drawing.
doneWith(r, coords, ctx, error, drawn, fetched, failed) ==
  [pc |-> "done", coords |-> coords, ctx |-> ctx, done |-> req[r].done + 1, err |-> error,
   drawn |-> drawn, fetched |-> fetched, failed |-> failed, sources |-> {}, dest |-> <<>>]

\* this.getTileSize(): the canvas is tileSize by tileSize pixels.
tileSize == 256

\* The destination rectangle <<destX, destY, destWidth, destHeight>> of
\* drawImage for the overlap of the cell's bounds and the descriptor's bbox:
\* linear in longitude and in latitude.  Pixels are whole here (the quotients
\* are rounded down); the canvas takes the fractions.
destRect(bounds, overlapWest, overlapNorth, overlapEast, overlapSouth) ==
  << ((overlapWest - bounds.west) * tileSize) \div (bounds.east - bounds.west),
     ((bounds.north - overlapNorth) * tileSize) \div (bounds.north - bounds.south),
     ((overlapEast - overlapWest) * tileSize) \div (bounds.east - bounds.west),
     ((overlapNorth - overlapSouth) * tileSize) \div (bounds.north - bounds.south) >>

\* drawImage(img, 0, 0, tileSize.x, tileSize.y) and putImageData(imageData, 0, 0)
fullRect == <<0, 0, tileSize, tileSize>>

InitLayer ==
  /\ tiles \in Manifests
  /\ loadingTiles = {}
  /\ loadedTileCount = 0
  /\ req = [r \in Callers |-> IdleReq]

\* createTile(coords, done), with loadAndRenderTile up to its first suspension.
createTile(r, coords, hasCtx) ==
  /\ req[r].pc = "idle"
  /\ LET found == centerTile(coords)
         tileKey == tileKeyOf(coords)
     IN \/ /\ ~hasCtx
           /\ req' = [req EXCEPT ![r] = doneWith(r, coords, FALSE, TRUE, "none", FALSE, FALSE)]
           /\ UNCHANGED <<loadingTiles, cacheVars, clientVars>>
        \/ /\ hasCtx
           /\ found = <<>> \/ tileKey \in loadingTiles
           /\ req' = [req EXCEPT ![r] = doneWith(r, coords, TRUE, FALSE, "none", FALSE, FALSE)]
           /\ UNCHANGED <<loadingTiles, cacheVars, clientVars>>
        \/ /\ hasCtx
           /\ found # <<>>
           /\ tileKey \notin loadingTiles
           /\ endsWithPng(found[1].url)
           /\ loadingTiles' = loadingTiles \cup {tileKey}
           /\ fetches' = fetches + 1
           /\ req' = [req EXCEPT ![r] = [IdleReq EXCEPT !.pc = "png", !.coords = coords,
                                                        !.fetched = TRUE]]
           /\ UNCHANGED <<cacheVars, calls, log, overlap, ncalls>>
        \/ /\ hasCtx
           /\ found # <<>>
           /\ tileKey \notin loadingTiles
           /\ ~endsWithPng(found[1].url)
           /\ loadingTiles' = loadingTiles \cup {tileKey}
           /\ loadTiff(r, found[1].url)
           /\ req' = [req EXCEPT ![r] = [IdleReq EXCEPT !.pc = "tiff", !.coords = coords,
                                                        !.fetched = TRUE]]
  /\ UNCHANGED <<tiles, loadedTileCount, pureVars, scriptVars>>

\* img.onload with the `return` after the no-overlap done(null) left out:
\* the handler runs on to the drawing, the count and a second done.
imgOnloadNoReturn(r) ==
  /\ req[r].pc = "png"
  /\ LET coords == req[r].coords
         bounds == getTileBounds(coords)
         tile == centerTile(coords)[1]
         overlapWest == IF bounds.west >= tile.bbox[1] THEN bounds.west ELSE tile.bbox[1]
         overlapEast == IF bounds.east <= tile.bbox[3] THEN bounds.east ELSE tile.bbox[3]
         overlapNorth == IF bounds.north <= tile.bbox[2] THEN bounds.north ELSE tile.bbox[2]
         overlapSouth == IF bounds.south >= tile.bbox[4] THEN bounds.south ELSE tile.bbox[4]
         twice == hasBbox(tile) /\ (overlapWest >= overlapEast \/ overlapSouth >= overlapNorth)
     IN req' = [req EXCEPT ![r] =
                  [doneWith(r, coords, TRUE, FALSE, "image", TRUE, FALSE)
                     EXCEPT !.sources = {tile},
                            !.done = IF twice THEN req[r].done + 2 ELSE req[r].done + 1,
                            !.dest = IF hasBbox(tile)
                                     THEN destRect(bounds, overlapWest, overlapNorth,
                                                   overlapEast, overlapSouth)
                                     ELSE fullRect]]
  /\ loadedTileCount' = loadedTileCount + 1
  /\ loadingTiles' = loadingTiles \ {tileKeyOf(req[r].coords)}
  /\ UNCHANGED <<tiles, cacheVars, clientVars, pureVars, scriptVars>>

\* img.onload
imgOnload(r) ==
  /\ req[r].pc = "png"
  /\ LET coords == req[r].coords
         bounds == getTileBounds(coords)
         tile == centerTile(coords)[1]
         overlapWest == IF bounds.west >= tile.bbox[1] THEN bounds.west ELSE tile.bbox[1]
         overlapEast == IF bounds.east <= tile.bbox[3] THEN bounds.east ELSE tile.bbox[3]
         overlapNorth == IF bounds.north <= tile.bbox[2] THEN bounds.north ELSE tile.bbox[2]
         overlapSouth == IF bounds.south >= tile.bbox[4] THEN bounds.south ELSE tile.bbox[4]
     IN IF hasBbox(tile) /\ (overlapWest >= overlapEast \/ overlapSouth >= overlapNorth)
        THEN /\ req' = [req EXCEPT ![r] = doneWith(r, coords, TRUE, FALSE, "none", TRUE, FALSE)]
             /\ UNCHANGED loadedTileCount
        ELSE /\ req' = [req EXCEPT ![r] =
                         [doneWith(r, coords, TRUE, FALSE, "image", TRUE, FALSE)
                            EXCEPT !.sources = {tile},
                                   !.dest = IF hasBbox(tile)
                                            THEN destRect(bounds, overlapWest, overlapNorth,
                                                          overlapEast, overlapSouth)
                                            ELSE fullRect]]
             /\ loadedTileCount' = loadedTileCount + 1
  /\ loadingTiles' = loadingTiles \ {tileKeyOf(req[r].coords)}
  /\ UNCHANGED <<tiles, cacheVars, clientVars, pureVars, scriptVars>>

\* img.onerror without `this.loadingTiles.delete(tileKey)`.
imgOnerrorKeepKey(r) ==
  /\ req[r].pc = "png"
  /\ req' = [req EXCEPT ![r] = doneWith(r, req[r].coords, TRUE, FALSE, "none", TRUE, TRUE)]
  /\ UNCHANGED <<tiles, loadingTiles, loadedTileCount, cacheVars, clientVars, pureVars, scriptVars>>

\* img.onerror
imgOnerror(r) ==
  /\ req[r].pc = "png"
  /\ loadingTiles' = loadingTiles \ {tileKeyOf(req[r].coords)}
  /\ req' = [req EXCEPT ![r] = doneWith(r, req[r].coords, TRUE, FALSE, "none", TRUE, TRUE)]
  /\ UNCHANGED <<tiles, loadedTileCount, cacheVars, clientVars, pureVars, scriptVars>>

\* loadAndRenderTile resumed after `await this.cache.loadTiff(url)`.
rasterContinue(r) ==
  /\ req[r].pc = "tiff"
  /\ calls[r].pc \in {"resolved", "rejected"}
  /\ LET coords == req[r].coords
         tiff == calls[r].result
     IN IF calls[r].pc = "rejected"
        THEN \* catch (error): done(error)
             /\ req' = [req EXCEPT ![r] = doneWith(r, coords, TRUE, TRUE, "none", TRUE, TRUE)]
             /\ UNCHANGED loadedTileCount
        ELSE IF tiff = "null"
        THEN \* if (!tiff)
             /\ req' = [req EXCEPT ![r] = doneWith(r, coords, TRUE, FALSE, "none", TRUE, TRUE)]
             /\ UNCHANGED loadedTileCount
        ELSE IF ~hasGetImage(tiff)
        THEN \* tiff.getImage is not a function: TypeError, caught, done(error)
             /\ req' = [req EXCEPT ![r] = doneWith(r, coords, TRUE, TRUE, "none", TRUE, FALSE)]
             /\ UNCHANGED loadedTileCount
        ELSE /\ req' = [req EXCEPT ![r] =
                         [doneWith(r, coords, TRUE, FALSE, "raster", TRUE, FALSE)
                            EXCEPT !.sources = {centerTile(coords)[1]}, !.dest = fullRect]]
             /\ loadedTileCount' = loadedTileCount + 1
  /\ loadingTiles' = loadingTiles \ {tileKeyOf(req[r].coords)}
  /\ calls' = [calls EXCEPT ![r] = FreeCall]
  /\ UNCHANGED <<tiles, cacheVars, fetches, log, overlap, ncalls, pureVars, scriptVars>>

\* clearCache() without its second statement: the cache is cleared and the
\* count of loaded tiles is left as it was.
clearCacheKeepCount ==
  /\ clear
  /\ UNCHANGED <<tiles, loadingTiles, loadedTileCount, req, pureVars, scriptVars>>

\* clearCache()
clearCache ==
  /\ clear
  /\ loadedTileCount' = 0
  /\ UNCHANGED <<tiles, loadingTiles, req, pureVars, scriptVars>>

(***************************************************************************)
(* Spec: a GeoTiffLayer (with its 200 MB cache) over an index, asked for   *)
(* up to MaxCallers grid cells that may be in progress together.           *)
(***************************************************************************)
Init ==
  /\ cache = <<>>
  /\ currentCacheSize = 0
  /\ maxCacheSize = 200 * 1024 * 1024
  /\ InitClients
  /\ InitLayer
  /\ InitPureIdle
  /\ InitScriptIdle

Next ==
  \/ \E r \in Callers, coords \in GridCoords, hasCtx \in BOOLEAN : createTile(r, coords, hasCtx)
  \/ \E r \in Callers : imgOnload(r)
  \/ \E r \in Callers : imgOnerror(r)
  \/ \E r \in Callers : req[r].pc = "tiff" /\ loadTiffResolve(r) /\ UNCHANGED <<layerVars, pureVars, scriptVars>>
  \/ \E r \in Callers : req[r].pc = "tiff" /\ loadTiffReject(r) /\ UNCHANGED <<layerVars, pureVars, scriptVars>>
  \/ \E r \in Callers : rasterContinue(r)
  \/ clearCache

Spec == Init /\ [][Next]_vars

(***************************************************************************)
(* Claims about the layer                                                  *)
(***************************************************************************)

\* C6 (as claimed): a request whose fetch or decode failed still completes
\* with done called once, without an error, and with nothing drawn.
C6_FailureNeverAborts ==
  \A r \in Callers :
    (req[r].pc = "done" /\ req[r].failed)
      => (req[r].done = 1 /\ ~req[r].err /\ req[r].drawn = "none")

\* No registered descriptor has a bbox that meets the bounds of the grid cell.
NoCoverage(coords) ==
  LET b == getTileBounds(coords)
  IN \A i \in 1..Len(tiles) :
       hasBbox(tiles[i]) =>
         \/ tiles[i].bbox[3] < b.west
         \/ tiles[i].bbox[1] > b.east
         \/ tiles[i].bbox[2] < b.south
         \/ tiles[i].bbox[4] > b.north

\* C7: a createTile (with a canvas context) for a grid cell that no registered
\* descriptor covers completes at once: done is called once without error,
\* nothing is drawn, no fetch is started, and the cache, the pending loads
\* and loadingTiles are as before.
C7_NoCoverage ==
  [][\A r \in Callers :
       (/\ req[r].pc = "idle"
        /\ req'[r].pc # "idle"
        /\ req'[r].ctx
        /\ NoCoverage(req'[r].coords))
         => /\ req'[r].pc = "done"
            /\ req'[r].done = 1
            /\ ~req'[r].err
            /\ req'[r].drawn = "none"
            /\ ~req'[r].fetched
            /\ fetches' = fetches
            /\ calls' = calls
            /\ cache' = cache
            /\ currentCacheSize' = currentCacheSize
            /\ loadingTiles' = loadingTiles]_vars

\* C7 witness: over a non-empty index, a request for an uncovered cell has
\* completed while another request's load is in progress.
C7_Witness ==
  /\ tiles # <<>>
  /\ loadingTiles # {}
  /\ \E r \in Callers :
       /\ req[r].pc = "done"
       /\ req[r].ctx
       /\ NoCoverage(req[r].coords)

\* The descriptor's bbox and the bounds share an area (more than an edge).
Overlaps(tile, b) ==
  /\ hasBbox(tile)
  /\ tile.bbox[1] < b.east /\ tile.bbox[3] > b.west
  /\ tile.bbox[4] < b.north /\ tile.bbox[2] > b.south

\* The registered descriptors that share an area with the bounds of the cell.
Overlapping(coords) ==
  {t \in Range(tiles) : Overlaps(t, getTileBounds(coords))}

\* The request completed with a canvas context, without an error and without
\* a failed load.
CompletedClean(r) ==
  req[r].pc = "done" /\ req[r].ctx /\ ~req[r].err /\ ~req[r].failed

\* C11 (as claimed): when the bounds of a grid cell share an area with more
\* than one registered descriptor, every such descriptor has contributed to
\* the canvas of a request for that cell that completed without a failure,
\* not only the descriptor at the centre of the cell.
C11_AllIntersectingContribute ==
  \A r \in Callers :
    (CompletedClean(r) /\ Cardinality(Overlapping(req[r].coords)) > 1)
      => Overlapping(req[r].coords) \subseteq req[r].sources

\* The bbox lies within the bounds and has an area.
Within(tile, b) ==
  /\ hasBbox(tile)
  /\ b.west <= tile.bbox[1] /\ tile.bbox[1] < tile.bbox[3] /\ tile.bbox[3] <= b.east
  /\ b.south <= tile.bbox[4] /\ tile.bbox[4] < tile.bbox[2] /\ tile.bbox[2] <= b.north

\* The rectangle <<x, y, w, h>> lies within the canvas.
InBuffer(d) ==
  /\ d[1] >= 0 /\ d[2] >= 0 /\ d[3] >= 0 /\ d[4] >= 0
  /\ d[1] + d[3] <= tileSize
  /\ d[2] + d[4] <= tileSize

\* C12 (as claimed): when the bounds of the requested cell contain the bbox
\* of a registered image descriptor, a request that completed without a
\* failure has drawn that image, into the rectangle of the canvas that the
\* bbox maps to (and nowhere else), and that rectangle lies within the canvas.
C12_ImageEndToEnd ==
  \A r \in Callers :
    \A t \in Range(tiles) :
      (/\ CompletedClean(r)
       /\ endsWithPng(t.url)
       /\ Within(t, getTileBounds(req[r].coords)))
        => /\ req[r].sources = {t}
           /\ req[r].dest = destRect(getTileBounds(req[r].coords),
                                      t.bbox[1], t.bbox[2], t.bbox[3], t.bbox[4])
           /\ InBuffer(req[r].dest)

\* Request r holds a payload that loadTiff handed to it, and its composite
\* has not finished (its continuation has not run yet).
Borrows(r) == req[r].pc = "tiff" /\ calls[r].pc = "resolved"

C17_ClearResets ==
  [][(calls' = calls /\ req' = req)
       => /\ cache' = <<>>
          /\ currentCacheSize' = 0
          /\ CacheBytes(cache') = 0
          /\ loadedTileCount' = 0
          /\ maxCacheSize' = maxCacheSize]_vars

\* C17 witness: the count of loaded tiles is zero although a request has
\* drawn its image (so the count was reset after that), no resolved load is
\* on record, and a load is still pending across the clearing.
C17_Witness ==
  /\ loadedTileCount = 0
  /\ log = <<>>
  /\ cache = <<>> /\ currentCacheSize = 0
  /\ \E r \in Callers : req[r].pc = "done" /\ req[r].drawn = "image"
  /\ \E d \in Callers : Pending(d)

\* The overlap of the cell's bounds and the bbox of the descriptor at the
\* cell's centre is degenerate.
DegenerateOverlap(coords) ==
  /\ centerTile(coords) # <<>>
  /\ LET t == centerTile(coords)[1]
         b == getTileBounds(coords)
         maxWest == IF b.west > t.bbox[1] THEN b.west ELSE t.bbox[1]
         minEast == IF b.east < t.bbox[3] THEN b.east ELSE t.bbox[3]
         minNorth == IF b.north < t.bbox[2] THEN b.north ELSE t.bbox[2]
         maxSouth == IF b.south > t.bbox[4] THEN b.south ELSE t.bbox[4]
     IN maxWest >= minEast \/ maxSouth >= minNorth

\* C21 (as claimed): a request whose source tile is a scalar raster (its
\* locator is no .png), whose load succeeded and whose bbox shares an area
\* with the cell's bounds completes without an error, with the raster of
\* that tile, coloured, on its canvas.
C21_RasterRendered ==
  \A r \in Callers :
    (/\ req[r].pc = "done" /\ req[r].fetched /\ ~req[r].failed
     /\ centerTile(req[r].coords) # <<>>
     /\ ~endsWithPng(centerTile(req[r].coords)[1].url)
     /\ ~DegenerateOverlap(req[r].coords))
      => /\ ~req[r].err
         /\ req[r].drawn = "raster"
         /\ req[r].sources = {centerTile(req[r].coords)[1]}

\* C22 (as claimed): two requests for the same grid coordinates that both
\* completed with a canvas context, without an error and without a failed
\* load hold the same content, whether or not they overlapped in time.
C22_NoCrossRequestState ==
  \A r \in Callers, d \in Callers :
    (/\ CompletedClean(r) /\ CompletedClean(d)
     /\ req[r].coords = req[d].coords)
      => /\ req[r].drawn = req[d].drawn
         /\ req[r].sources = req[d].sources
         /\ req[r].dest = req[d].dest

\* C24 (as claimed): a request whose load succeeded and whose overlap
\* rectangle is degenerate completes without an error, with nothing drawn,
\* and its key is no longer in loadingTiles.
C24_DegenerateSkipped ==
  [][\A r \in Callers :
       (/\ req[r].pc \in {"png", "tiff"}
        /\ req'[r].pc = "done"
        /\ ~req'[r].failed
        /\ DegenerateOverlap(req[r].coords))
         => /\ ~req'[r].err
            /\ req'[r].drawn = "none"
            /\ req'[r].sources = {}
            /\ tileKeyOf(req[r].coords) \notin loadingTiles']_vars

\* C25: done is called at most once for a request, on every path; and once
\* done has been called the request changes nothing more: its canvas, its
\* record and its load stay as they are.
C25_DoneAtMostOnce ==
  [][\A r \in Callers :
       /\ req'[r].done <= 1
       /\ (req'[r].pc = "done") = (req'[r].done = 1)
       /\ req[r].pc = "done" => (req'[r] = req[r] /\ calls'[r] = calls[r])]_vars

\* C25 witness: one request completed by drawing an image and another by the
\* exception path after a load, each with done called once.
C25_Witness ==
  \E r \in Callers, d \in Callers :
    /\ req[r].pc = "done" /\ req[r].drawn = "image" /\ req[r].done = 1
    /\ req[d].pc = "done" /\ req[d].fetched /\ req[d].err /\ req[d].done = 1

\* The requests that have added their key and not yet called done.
Running == {r \in Callers : req[r].pc \in {"png", "tiff"}}

\* C27: loadingTiles holds exactly the keys of the requests that added one
\* and have not yet called done, each key added by one request only; so it
\* is empty once every started request has completed, and no request removes
\* the key of another request that is still running.
C27_LoadingTilesOwned ==
  /\ loadingTiles = {tileKeyOf(req[r].coords) : r \in Running}
  /\ \A r \in Running, d \in Running :
       tileKeyOf(req[r].coords) = tileKeyOf(req[d].coords) => r = d

\* C27 witness: a request for the coordinates of a still-running request has
\* completed (blank) and the key is still in loadingTiles.
C27_Witness ==
  \E r \in Running, d \in Callers :
    /\ req[d].pc = "done" /\ req[d].ctx /\ ~req[d].fetched
    /\ req[d].coords = req[r].coords
    /\ tileKeyOf(req[r].coords) \in loadingTiles

(***************************************************************************)
(* SpecLive: the layer under the scheduling the event loop guarantees: a   *)
(* continuation of a settled promise is run.  Whether and when a transfer  *)
(* ends (load, error) is up to the network, and nothing is assumed of it.  *)
(***************************************************************************)
SpecLive ==
  /\ Init
  /\ [][Next]_vars
  /\ \A r \in Callers : WF_vars(rasterContinue(r))

\* C13 (as claimed): every request that has started a load eventually
\* completes (done is called), whatever the network does.
C13_EventuallyDone ==
  \A r \in Callers : (req[r].pc \in {"png", "tiff"}) ~> (req[r].pc = "done")

(***************************************************************************)
(* SpecIndex: the index's two queries as functions of the registered       *)
(* descriptors and of the query, over a small grid of coordinates.         *)
(***************************************************************************)
MaxLat == 1
MaxLng == 2

LatCoord == 0..MaxLat
LngCoord == 0..MaxLng

\* Every bbox over the grid, well-formed or not, and the absent bbox.
Bboxes ==
  {<<w, n, e, s>> : w \in LngCoord, n \in LatCoord, e \in LngCoord, s \in LatCoord} \cup {<<>>}

\* Every registration of at most two descriptors.
TileLists ==
  {<<>>}
    \cup {<<[url |-> UrlA, bbox |-> b]>> : b \in Bboxes}
    \cup {<<[url |-> UrlA, bbox |-> b1], [url |-> UrlB, bbox |-> b2]>> : b1 \in Bboxes, b2 \in Bboxes}

\* The query rectangles; rangeQuery takes those with west <= east and
\* south <= north, as getTileBounds and a map viewport give them.
QueryBounds ==
  {[north |-> n, south |-> s, east |-> e, west |-> w] :
     w \in LngCoord, e \in LngCoord, s \in LatCoord, n \in LatCoord}

InitIndex ==
  /\ cache = <<>>
  /\ currentCacheSize = 0
  /\ maxCacheSize = 200 * 1024 * 1024
  /\ InitClients
  /\ tiles \in TileLists
  /\ loadingTiles = {}
  /\ loadedTileCount = 0
  /\ req = [r \in Callers |-> IdleReq]
  /\ InitPureIdle
  /\ InitScriptIdle

\* index.getTile(lat, lng)
pointQuery(lat, lng) ==
  /\ query.op = "none"
  /\ query' = [op |-> "getTile", lat |-> lat, lng |-> lng]
  /\ answer' = getTile(lat, lng)
  /\ UNCHANGED <<cacheVars, clientVars, layerVars, scriptVars>>

\* index.getTilesForBounds(bounds)
rangeQuery(bounds) ==
  /\ query.op = "none"
  /\ bounds.west <= bounds.east /\ bounds.south <= bounds.north
  /\ query' = [op |-> "getTilesForBounds", bounds |-> bounds]
  /\ answer' = getTilesForBounds(bounds)
  /\ UNCHANGED <<cacheVars, clientVars, layerVars, scriptVars>>

NextIndex ==
  \/ \E lat \in LatCoord, lng \in LngCoord : pointQuery(lat, lng)
  \/ \E bounds \in QueryBounds : rangeQuery(bounds)

SpecIndex == InitIndex /\ [][NextIndex]_vars

\* A descriptor's bbox as a set of grid points: empty when the bbox is absent
\* or inverted.
PointsOf(tile) ==
  IF hasBbox(tile)
  THEN {<<lat, lng>> \in LatCoord \X LngCoord :
          lng \in tile.bbox[1]..tile.bbox[3] /\ lat \in tile.bbox[4]..tile.bbox[2]}
  ELSE {}

PointsOfBounds(b) ==
  {<<lat, lng>> \in LatCoord \X LngCoord : lng \in b.west..b.east /\ lat \in b.south..b.north}

IsRectangle(tile) ==
  hasBbox(tile) /\ tile.bbox[1] <= tile.bbox[3] /\ tile.bbox[4] <= tile.bbox[2]

\* C8: getTilesForBounds returns a registered descriptor whose bbox is a
\* rectangle exactly when the bbox and the query rectangle share a point
\* (closed intervals: touching counts); a descriptor without a bbox is never
\* returned; and what is returned is a sub-list of the registered list.
C8_RangeOverlap ==
  query.op = "getTilesForBounds" =>
    /\ \A i \in 1..Len(tiles) :
         /\ IsRectangle(tiles[i]) =>
              (tiles[i] \in Range(answer)
                 <=> PointsOf(tiles[i]) \cap PointsOfBounds(query.bounds) # {})
         /\ ~hasBbox(tiles[i]) => tiles[i] \notin Range(answer)
    /\ Range(answer) \subseteq Range(tiles)

\* C8 witness: a query returned a descriptor that only touches the query
\* rectangle (they share an edge or a corner, and no interior), and left out
\* another one that is disjoint from it.
C8_Witness ==
  /\ query.op = "getTilesForBounds"
  /\ Len(tiles) = 2
  /\ Len(answer) = 1
  /\ IsRectangle(tiles[1]) /\ IsRectangle(tiles[2])
  /\ \E t \in Range(answer) :
       \/ t.bbox[3] = query.bounds.west
       \/ t.bbox[1] = query.bounds.east
       \/ t.bbox[2] = query.bounds.south
       \/ t.bbox[4] = query.bounds.north

\* The example of the index-containment property.
ExampleTile == [url |-> UrlA, bbox |-> <<-60, 0, -50, -10>>]

\* C9: getTile returns none exactly when no registered bbox contains the
\* point (closed on all four edges), and otherwise the first registered
\* descriptor whose bbox contains it; for the bbox (west -60, north 0,
\* east -50, south -10) the point (-5, -55) finds the descriptor and
\* (-5, -65) finds none.
C9_PointQuery ==
  /\ query.op = "getTile" =>
       LET hits == {i \in 1..Len(tiles) : <<query.lat, query.lng>> \in PointsOf(tiles[i])}
       IN IF hits = {}
          THEN answer = <<>>
          ELSE answer = <<tiles[CHOOSE i \in hits : \A j \in hits : i <= j]>>
  /\ findTileForCoordinates(-5, -55, <<ExampleTile>>) = <<ExampleTile>>
  /\ findTileForCoordinates(-5, -65, <<ExampleTile>>) = <<>>

\* C9 witness: two registered bboxes contain the queried point, which lies on
\* an edge of the first one, and the first one was returned.
C9_Witness ==
  /\ query.op = "getTile"
  /\ Len(tiles) = 2
  /\ <<query.lat, query.lng>> \in PointsOf(tiles[1]) \cap PointsOf(tiles[2])
  /\ tiles[1].bbox # tiles[2].bbox
  /\ query.lng = tiles[1].bbox[3]
  /\ answer = <<tiles[1]>>

(***************************************************************************)
(* S3FileDiscovery: the manifest loader.  The manifest is what the server   *)
(* sent: the fetch throws, or there is a response with a status (ok or     *)
(* not) and a body that is not JSON, JSON that cannot be iterated (null,   *)
(* a number, a plain object), or a JSON array of records.  A record is     *)
(* null or an object; its url is <<>> when the field is absent; its bbox   *)
(* is absent, an array of four numbers, or a scalar (a truthy value that   *)
(* cannot be destructured).  Of a TileInfo the model keeps the fields the  *)
(* index and the layers read: url and bbox.                                *)
(***************************************************************************)
MaxEntries == 2

UrlEmpty == [stem |-> "", ext |-> ""]

EntryObject(url, bboxKind, bbox) ==
  [kind |-> "object", url |-> url, bboxKind |-> bboxKind, bbox |-> bbox]

EntryNull == [kind |-> "null", url |-> <<>>, bboxKind |-> "absent", bbox |-> <<>>]

Entries ==
  { EntryObject(<<UrlP>>, "array", <<0, 1, 1, 0>>),
    EntryObject(<<UrlA>>, "array", <<1, 2, 2, 1>>),
    EntryObject(<<UrlB>>, "array", <<2, 0, 1, 1>>),
    EntryObject(<<>>, "array", <<0, 1, 1, 0>>),
    EntryObject(<<UrlEmpty>>, "array", <<0, 1, 1, 0>>),
    EntryObject(<<UrlC>>, "absent", <<>>),
    EntryObject(<<UrlC>>, "scalar", <<>>),
    EntryNull }

RECURSIVE SeqsUpTo(_, _)
SeqsUpTo(S, n) ==
  IF n = 0 THEN {<<>>}
  ELSE LET shorter == SeqsUpTo(S, n - 1)
       IN shorter \cup {Append(q, e) : q \in shorter, e \in S}

\* What fetch(url) and response.clone().json() can give.
Responses ==
  {[kind |-> "throws", ok |-> FALSE, json |-> "notJson", data |-> <<>>]}
    \cup [kind : {"response"}, ok : BOOLEAN, json : {"notJson", "notIterable"}, data : {<<>>}]
    \cup [kind : {"response"}, ok : BOOLEAN, json : {"array"}, data : SeqsUpTo(Entries, MaxEntries)]

\* !entry.url
urlFalsy(entry) == entry.url = <<>> \/ entry.url[1] = UrlEmpty

\* !entry.bbox
bboxFalsy(entry) == entry.bboxKind = "absent"

\* The loop of loadTileManifest with `break` in the place of `continue`.
RECURSIVE pushEntriesUntilMalformed(_, _)
pushEntriesUntilMalformed(data, pushed) ==
  IF data = <<>> THEN [threw |-> FALSE, tiles |-> pushed]
  ELSE LET entry == Head(data)
       IN IF entry.kind = "null" THEN [threw |-> TRUE, tiles |-> pushed]
          ELSE IF urlFalsy(entry) \/ bboxFalsy(entry) THEN [threw |-> FALSE, tiles |-> pushed]
          ELSE IF entry.bboxKind = "scalar" THEN [threw |-> TRUE, tiles |-> pushed]
          ELSE pushEntriesUntilMalformed(Tail(data),
                           Append(pushed, [url |-> entry.url[1], bbox |-> entry.bbox]))

\* The body of `for (const entry of data)` over the rest of the array: the
\* tiles pushed so far, and whether a TypeError was thrown (reading a field
\* of null, destructuring a bbox that is not iterable).
RECURSIVE pushEntries(_, _)
pushEntries(data, pushed) ==
  IF data = <<>> THEN [threw |-> FALSE, tiles |-> pushed]
  ELSE LET entry == Head(data)
       IN IF entry.kind = "null" THEN [threw |-> TRUE, tiles |-> pushed]
          ELSE IF urlFalsy(entry) \/ bboxFalsy(entry) THEN pushEntries(Tail(data), pushed)
          ELSE IF entry.bboxKind = "scalar" THEN [threw |-> TRUE, tiles |-> pushed]
          ELSE pushEntries(Tail(data),
                           Append(pushed, [url |-> entry.url[1], bbox |-> entry.bbox]))

entriesOf(data) == pushEntries(data, <<>>)

\* The try block of loadTileManifest: what it returns, or that it threw.
manifestTry(net, fallbackToPotential) ==
  IF net.kind = "throws" THEN [threw |-> TRUE, tiles |-> <<>>]
  ELSE IF ~net.ok /\ ~fallbackToPotential THEN [threw |-> FALSE, tiles |-> <<>>]
  ELSE IF net.json = "notJson" THEN [threw |-> FALSE, tiles |-> <<>>]
  ELSE IF net.json = "notIterable" THEN [threw |-> TRUE, tiles |-> <<>>]
  ELSE entriesOf(net.data)

\* loadTileManifest(manifestUrl, options): the promise it returns, settled.
loadTileManifest(net, fallbackToPotential) ==
  LET try == manifestTry(net, fallbackToPotential)
  IN IF try.threw
     THEN [state |-> "fulfilled", value |-> <<>>]
     ELSE [state |-> "fulfilled", value |-> try.tiles]

RECURSIVE numDigits(_)
numDigits(n) == IF n < 10 THEN 1 ELSE 1 + numDigits(n \div 10)

\* String(n).padStart(width, '0'): the number written, and how many
\* characters it takes.
padStart(n, width) ==
  [number |-> n, len |-> IF numDigits(n) > width THEN numDigits(n) ELSE width]

abs(n) == IF n < 0 THEN -n ELSE n

\* `Hansen_GFC-2024-v1.12_lossyear_${latStr}${latDir}_${lngStr}${lngDir}.png`
\* for lat = -50, -40 .. 80 (outer loop) and lng = -180, -170 .. 170 (inner).
generatePotentialTileFilenames ==
  [i \in 1..(14 * 36) |->
     LET lat == -50 + 10 * ((i - 1) \div 36)
         lng == -180 + 10 * ((i - 1) % 36)
     IN [year |-> 2024, version |-> <<1, 12>>,
         latStr |-> padStart(abs(lat), 2), latDir |-> IF lat >= 0 THEN "N" ELSE "S",
         lngStr |-> padStart(abs(lng), 3), lngDir |-> IF lng >= 0 THEN "E" ELSE "W",
         ext |-> "png"]]

\* parseTileFilename: <<>> (null) unless the name matches
\* /Hansen_GFC-\d{4}-v\d+\.\d+_lossyear_(\d{2})(N|S)_(\d{3})(E|W)\.(tif|png)$/i
parseTileFilename(filename) ==
  IF /\ numDigits(filename.year) = 4
     /\ filename.latStr.len = 2
     /\ filename.lngStr.len = 3
     /\ filename.latDir \in {"N", "S", "n", "s"}
     /\ filename.lngDir \in {"E", "W", "e", "w"}
     /\ toLowerCase(filename.ext) \in {"tif", "png"}
  THEN LET lat == filename.latStr.number
           lng == filename.lngStr.number
           north == filename.latDir \in {"N", "n"}
           westward == filename.lngDir \in {"W", "w"}
       IN << [url |-> filename,
              bbox |-> << IF westward THEN -lng ELSE lng,
                          IF north THEN lat + 10 ELSE -lat,
                          IF westward THEN -(lng - 10) ELSE lng + 10,
                          IF north THEN lat ELSE -(lat + 10) >>] >>
  ELSE <<>>

\* filenames.map(parseTileFilename).filter(t => t !== null)
parseAll(filenames) ==
  LET named == SelectSeq(filenames, LAMBDA f : parseTileFilename(f) # <<>>)
  IN [i \in 1..Len(named) |-> parseTileFilename(named[i])[1]]

(***************************************************************************)
(* SpecManifest: MapView loads the manifest and builds the index from the  *)
(* tiles the loader returned.                                              *)
(***************************************************************************)
InitManifest ==
  /\ cache = <<>>
  /\ currentCacheSize = 0
  /\ maxCacheSize = 200 * 1024 * 1024
  /\ InitClients
  /\ InitLayerIdle
  /\ InitPureIdle
  /\ InitScriptIdle

\* const tiles = await loadTileManifest(...); new TileSpatialIndex(tiles)
loadManifest(net, fallbackToPotential) ==
  /\ query.op = "none"
  /\ LET promise == loadTileManifest(net, fallbackToPotential)
     IN /\ query' = [op |-> "loadTileManifest", net |-> net,
                     fallbackToPotential |-> fallbackToPotential]
        /\ answer' = promise
        /\ tiles' = IF promise.state = "fulfilled" THEN promise.value ELSE tiles
  /\ UNCHANGED <<cacheVars, clientVars, loadingTiles, loadedTileCount, req, scriptVars>>

NextManifest ==
  \E net \in Responses, fallbackToPotential \in BOOLEAN : loadManifest(net, fallbackToPotential)

SpecManifest == InitManifest /\ [][NextManifest]_vars

\* C15 (as claimed): every descriptor the index holds has a bbox with
\* west < east and south < north; a record with malformed geometry is never
\* registered.
C15_GeometryValidated ==
  \A i \in 1..Len(tiles) :
    /\ hasBbox(tiles[i])
    /\ tiles[i].bbox[1] < tiles[i].bbox[3]
    /\ tiles[i].bbox[4] < tiles[i].bbox[2]

\* A record that has its locator and its bbox.
WellFormed(entry) ==
  /\ entry.kind = "object"
  /\ entry.url # <<>> /\ entry.url[1] # UrlEmpty
  /\ entry.bboxKind = "array"

\* A record that lacks its locator or its bbox.
MissingField(entry) ==
  /\ entry.kind = "object"
  /\ entry.bboxKind \in {"absent", "array"}
  /\ ~WellFormed(entry)

Fetched(net) == net.kind = "response" /\ net.ok

\* C18 (as claimed): the promise of loadTileManifest never rejects; without
\* fallbackToPotential a manifest that cannot be fetched or parsed gives the
\* empty list; with fallbackToPotential a manifest that cannot be fetched
\* gives the tiles parsed from the generated potential filenames.
C18_ManifestFallback ==
  query.op = "loadTileManifest" =>
    /\ answer.state = "fulfilled"
    /\ (~query.fallbackToPotential /\ (~Fetched(query.net) \/ query.net.json = "notJson"))
         => answer.value = <<>>
    /\ (query.fallbackToPotential /\ ~Fetched(query.net))
         => LET potential == parseAll(generatePotentialTileFilenames)
            IN /\ Len(answer.value) = Len(potential)
               /\ \A i \in 1..Len(potential) : answer.value[i].bbox = potential[i].bbox

(***************************************************************************)
(* discoverAvailableTiles: the potential filenames are probed with HEAD    *)
(* requests, batchSize at a time.  A server answers a probe with an ok     *)
(* status or not, or the fetch throws.                                     *)
(***************************************************************************)
batchSize == 20

Servers == {"all", "none", "north", "alternate", "offline"}

\* fetch(url, { method: 'HEAD' }) for the i-th potential filename.
head(server, i) ==
  CASE server = "all" -> "ok"
    [] server = "none" -> "notOk"
    [] server = "north" ->
         IF generatePotentialTileFilenames[i].latDir = "N" THEN "ok" ELSE "notOk"
    [] server = "alternate" -> IF i % 2 = 1 THEN "ok" ELSE "notOk"
    [] server = "offline" -> "throws"

\* checkFileExists(url): response.ok, or false when the fetch throws.
checkFileExists(server, i) == head(server, i) = "ok"

\* potentialFilenames.slice(i, i + batchSize), as positions 1..length.
slice(i) ==
  LET length == Len(generatePotentialTileFilenames)
      end == IF i + batchSize < length THEN i + batchSize ELSE length
  IN [k \in 1..(end - i) |-> i + k]

\* The tiles one settled batch pushes to availableTiles.
batchTiles(server, batch) ==
  LET found == SelectSeq(batch, LAMBDA k :
                 /\ checkFileExists(server, k)
                 /\ parseTileFilename(generatePotentialTileFilenames[k]) # <<>>)
  IN [j \in 1..Len(found) |-> parseTileFilename(generatePotentialTileFilenames[found[j]])[1]]

InitDiscover ==
  /\ cache = <<>>
  /\ currentCacheSize = 0
  /\ maxCacheSize = 200 * 1024 * 1024
  /\ InitClients
  /\ InitLayerIdle
  /\ InitPureIdle
  /\ InitScriptIdle

\* discoverAvailableTiles(onProgress), up to the first await: the probes of
\* the first batch are sent.
discoverAvailableTiles(server, onProgress) ==
  /\ query.op = "none"
  /\ query' = [op |-> "discoverAvailableTiles", server |-> server, onProgress |-> onProgress,
               pc |-> "awaiting", i |-> 0]
  /\ answer' = [availableTiles |-> <<>>, progress |-> <<>>, heads |-> slice(0),
                batches |-> <<Len(slice(0))>>]
  /\ UNCHANGED <<cacheVars, clientVars, layerVars, scriptVars>>

\* Promise.all of the batch has resolved: the tiles found are pushed,
\* onProgress is called, i advances; the probes of the next batch are sent,
\* or the loop ends and availableTiles is returned.
discoverBatch ==
  /\ query.op = "discoverAvailableTiles"
  /\ query.pc = "awaiting"
  /\ LET i == query.i
         length == Len(generatePotentialTileFilenames)
         pushed == answer.availableTiles \o batchTiles(query.server, slice(i))
         reported == IF query.onProgress
                     THEN Append(answer.progress, <<i + batchSize, length>>)
                     ELSE answer.progress
         next == i + batchSize
     IN IF next < length
        THEN /\ query' = [query EXCEPT !.i = next]
             /\ answer' = [availableTiles |-> pushed, progress |-> reported,
                           heads |-> answer.heads \o slice(next),
                           batches |-> Append(answer.batches, Len(slice(next)))]
        ELSE /\ query' = [query EXCEPT !.i = next, !.pc = "returned"]
             /\ answer' = [answer EXCEPT !.availableTiles = pushed, !.progress = reported]
  /\ UNCHANGED <<cacheVars, clientVars, layerVars, scriptVars>>

NextDiscover ==
  \/ \E server \in Servers, onProgress \in BOOLEAN : discoverAvailableTiles(server, onProgress)
  \/ discoverBatch

SpecDiscover == InitDiscover /\ [][NextDiscover]_vars

\* C29 (as claimed): every onProgress(current, total) call has
\* 0 < current <= total, current grows strictly from call to call, the last
\* call has current = total; no potential filename is probed twice and, when
\* the function returns, each has been probed; and no batch has more than 20
\* probes.
C29_ProgressConsistent ==
  query.op = "discoverAvailableTiles" =>
    LET progress == answer.progress
        heads == answer.heads
        total == Len(generatePotentialTileFilenames)
    IN /\ \A k \in 1..Len(progress) :
            /\ 0 < progress[k][1] /\ progress[k][1] <= progress[k][2]
            /\ progress[k][2] = total
            /\ k > 1 => progress[k - 1][1] < progress[k][1]
       /\ \A j \in 1..Len(heads), k \in 1..Len(heads) : heads[j] = heads[k] => j = k
       /\ \A k \in 1..Len(answer.batches) : answer.batches[k] <= 20
       /\ query.pc = "returned" =>
            /\ Range(heads) = 1..total
            /\ query.onProgress =>
                 (progress # <<>> /\ progress[Len(progress)][1] = total)

(***************************************************************************)
(* Tile names.  GeoTIFFCache.getTileFilename names the tile of a point;    *)
(* parseTileFilename reads a name back into a bbox.  Coordinates are whole *)
(* degrees.                                                                *)
(***************************************************************************)
\* getTileFilename(lat, lng)
getTileFilename(lat, lng) ==
  LET latTile == (abs(lat) \div 10) * 10
      lngTile == (abs(lng) \div 10) * 10
  IN [year |-> 2020, version |-> <<1, 8>>,
      latStr |-> padStart(latTile, 2), latDir |-> IF lat >= 0 THEN "N" ELSE "S",
      lngStr |-> padStart(lngTile, 3), lngDir |-> IF lng >= 0 THEN "E" ELSE "W",
      ext |-> "tif"]

\* The points asked for: every fifth degree of the dataset's range, so tile
\* edges and tile interiors of all four hemispheres.
PointLats == {5 * k : k \in -11..15}
PointLngs == {5 * k : k \in -35..35}

InitNames ==
  /\ cache = <<>>
  /\ currentCacheSize = 0
  /\ maxCacheSize = 200 * 1024 * 1024
  /\ InitClients
  /\ InitLayerIdle
  /\ InitPureIdle
  /\ InitScriptIdle

\* parseTileFilename(getTileFilename(lat, lng))
nameQuery(lat, lng) ==
  /\ query.op = "none"
  /\ query' = [op |-> "getTileFilename", lat |-> lat, lng |-> lng]
  /\ answer' = parseTileFilename(getTileFilename(lat, lng))
  /\ UNCHANGED <<cacheVars, clientVars, layerVars, scriptVars>>

NextNames == \E lat \in PointLats, lng \in PointLngs : nameQuery(lat, lng)

SpecNames == InitNames /\ [][NextNames]_vars

\* C28 (as claimed): for every point of the dataset's range the name that
\* getTileFilename gives parses, and the parsed bbox is 10 by 10 degrees,
\* has west < east and south < north, and contains the point.
C28_NameRoundTrip ==
  query.op = "getTileFilename" =>
    /\ answer # <<>>
    /\ LET west == answer[1].bbox[1]
           north == answer[1].bbox[2]
           east == answer[1].bbox[3]
           south == answer[1].bbox[4]
       IN /\ east - west = 10 /\ north - south = 10
          /\ west < east /\ south < north
          /\ west <= query.lng /\ query.lng <= east
          /\ south <= query.lat /\ query.lat <= north

(***************************************************************************)
(* ForestLossColors.  Math.floor of the interpolations is computed in      *)
(* integers: for every value 0..255 the quotients below equal the floor    *)
(* of the double-precision expressions of the source.                      *)
(***************************************************************************)
RGBA(r, g, b, a) == [r |-> r, g |-> g, b |-> b, a |-> a]

\* The gradient of the years, alpha aside.
yearColor(value, a) ==
  LET year == value
  IN IF year >= 24 THEN RGBA(0, 255, 255, a)
     ELSE IF year >= 23
     THEN RGBA(0, 230 + (year - 23) * 25, 230 + (year - 23) * 25, a)
     ELSE IF year >= 22
     THEN RGBA(255 * (23 - year),
               50 * (23 - year) + 230 * (year - 22),
               50 * (23 - year) + 230 * (year - 22), a)
     ELSE IF year >= 20
     THEN RGBA(255, (year - 20) * 25, (year - 20) * 25, a)
     ELSE IF year >= 15
     THEN RGBA(255, ((year - 15) * 50) \div 5, 0, a)
     ELSE IF year >= 10
     THEN RGBA(255, 50 + ((year - 10) * 115) \div 5, 0, a)
     ELSE IF year >= 5
     THEN RGBA(255, 165 + ((year - 5) * 90) \div 5, 0, a)
     ELSE RGBA(255, 255, value * 10, a)

\* The function without its test for 255 (water / no data).
getLossYearColorNoWater(value) ==
  IF value = 0 THEN RGBA(0, 0, 0, 0) ELSE yearColor(value, 255)

getLossYearColor(value) ==
  IF value = 0 THEN RGBA(0, 0, 0, 0)
  ELSE IF value = 255 THEN RGBA(100, 100, 100, 128)
  ELSE yearColor(value, 255)

\* The pixel values of a one-byte raster.
PixelValues == 0..255

\* A store into a Uint8ClampedArray.
toUint8Clamp(x) == IF x < 0 THEN 0 ELSE IF x > 255 THEN 255 ELSE x

\* createColorLUT(): 256 * 4 bytes, lut[i * 4 + k] the k-th channel of
\* getLossYearColor(i).  Indices are zero-based, as in the array.
createColorLUT ==
  [idx \in 0..(256 * 4 - 1) |->
     LET i == idx \div 4
         color == getLossYearColor(i)
     IN toUint8Clamp(CASE idx = i * 4 -> color.r
                       [] idx = i * 4 + 1 -> color.g
                       [] idx = i * 4 + 2 -> color.b
                       [] idx = i * 4 + 3 -> color.a)]

\* Raster values are kept in halves (h stands for h / 2), so that
\* Math.floor has something to do; they range below 0 and above 255.
RasterValues == (-4)..(2 * 260)

\* Math.floor of a value kept in halves.
floor(value) == value \div 2

lutIdxUnclamped(value) == floor(value) * 4

\* lutIdx = Math.min(255, Math.max(0, Math.floor(value))) * 4
lutIdx(value) ==
  LET f == floor(value)
      lower == IF f > 0 THEN f ELSE 0
      upper == IF lower < 255 THEN lower ELSE 255
  IN upper * 4

\* The four bytes stored in imageData.data for a raster value: colorLUT at
\* lutIdx .. lutIdx + 3; a read outside the array is undefined and is stored
\* as 0.
lutLookup(value) ==
  LET i == lutIdx(value)
      at(k) == IF k \in DOMAIN createColorLUT THEN createColorLUT[k] ELSE 0
  IN RGBA(at(i), at(i + 1), at(i + 2), at(i + 3))

(***************************************************************************)
(* SpecColor: getLossYearColor called on each pixel value.                 *)
(***************************************************************************)
InitColor ==
  /\ cache = <<>>
  /\ currentCacheSize = 0
  /\ maxCacheSize = 200 * 1024 * 1024
  /\ InitClients
  /\ InitLayerIdle
  /\ InitPureIdle
  /\ InitScriptIdle

colorQuery(value) ==
  /\ query' = [op |-> "getLossYearColor", value |-> value]
  /\ answer' = getLossYearColor(value)
  /\ UNCHANGED <<cacheVars, clientVars, layerVars, scriptVars>>

lutQuery(value) ==
  /\ query' = [op |-> "colorLUT", value |-> value]
  /\ answer' = lutLookup(value)
  /\ UNCHANGED <<cacheVars, clientVars, layerVars, scriptVars>>

NextColor ==
  \/ \E value \in PixelValues : colorQuery(value)
  \/ \E value \in RasterValues : lutQuery(value)

SpecColor == InitColor /\ [][NextColor]_vars

\* C10: for every value 0..255 getLossYearColor yields four channels in
\* 0..255; 0 has alpha 0; 255 is (100, 100, 100, 128); 24 is the opaque
\* bright cyan (0, 255, 255, 255); every value 1..24 has alpha 255.
C10_ColorMap ==
  query.op = "getLossYearColor" =>
    /\ answer.r \in 0..255 /\ answer.g \in 0..255
    /\ answer.b \in 0..255 /\ answer.a \in 0..255
    /\ query.value = 0 => answer.a = 0
    /\ query.value = 255 => answer = RGBA(100, 100, 100, 128)
    /\ query.value = 24 => answer = RGBA(0, 255, 255, 255)
    /\ query.value \in 1..24 => answer.a = 255

\* C10 witness: the function has been applied to 255.
C10_Witness ==
  /\ query.op = "getLossYearColor"
  /\ query.value = 255
  /\ answer.a = 128

\* C23: for every raster value v (kept in halves) the four bytes read from
\* the table at the clamped index are the four channels of
\* getLossYearColor(clamp(floor(v), 0, 255)), and the clamped value lies in
\* 0..255.
C23_LutEqualsFunction ==
  query.op = "colorLUT" =>
    LET v == query.value
        clamped == IF v < 0 THEN 0 ELSE IF v >= 2 * 256 THEN 255 ELSE v \div 2
    IN /\ clamped \in 0..255
       /\ lutIdx(v) = clamped * 4
       /\ answer = getLossYearColor(clamped)

\* C23 witness: a value above 255 has been looked up and came out as the
\* no-data colour.
C23_Witness ==
  /\ query.op = "colorLUT"
  /\ query.value > 2 * 255 + 1
  /\ answer = RGBA(100, 100, 100, 128)

(***************************************************************************)
(* download_tifs.js: main() run again and again over the same OUTPUT_DIR.  *)
(* A url of the manifest is a directory and a file name; the file name is  *)
(* a stem and an extension.                                                *)
(***************************************************************************)
MaxRuns == 2

CONCURRENCY == 5

DownloadUrl(name) == [dir |-> "GFC-2024-v1.12", stem |-> name.stem, ext |-> name.ext]

\* The lines of lossyear.txt, trimmed: two .tif urls, an empty line, a name
\* in capitals and a name that is no .tif.
ManifestLines ==
  <<DownloadUrl(UrlA), DownloadUrl(UrlEmpty), DownloadUrl(UrlB), DownloadUrl(UrlC),
    DownloadUrl(UrlP)>>

\* l.length > 0 && l.endsWith(".tif")
isTifLine(l) == l.stem # "" /\ l.ext = "tif"

downloadManifest(lines) == SelectSeq(lines, isTifLine)

\* path.basename(url)
basename(url) == [stem |-> url.stem, ext |-> url.ext]

\* The tasks that hold one of the CONCURRENCY slots of pLimit.
activeTasks == {i \in DOMAIN tasks : tasks[i].pc \in {"requested", "writing"}}

\* What axios.get(url, {responseType: "stream", validateStatus: s => s < 500})
\* can give: a status below 500, or an exception (a status of 500 or more, a
\* network error, the timeout).
Answers == {"200", "404", "403", "throws"}

InitDownload ==
  /\ cache = <<>>
  /\ currentCacheSize = 0
  /\ maxCacheSize = 200 * 1024 * 1024
  /\ InitClients
  /\ InitLayerIdle
  /\ InitPureIdle
  /\ InitScriptIdle

\* main() up to the creation of the tasks; when downloadManifest throws,
\* main().catch logs the fatal error and nothing is written.
main(manifestFetched) ==
  /\ run.pc \in {"idle", "written", "fatal"}
  /\ run.runs < MaxRuns
  /\ IF manifestFetched
     THEN LET urls == downloadManifest(ManifestLines)
          IN /\ run' = [pc |-> "downloading", runs |-> run.runs + 1, urls |-> urls,
                        successful |-> <<>>, failed |-> <<>>]
             /\ tasks' = [i \in 1..Len(urls) |-> [pc |-> "queued", status |-> "none"]]
     ELSE /\ run' = [pc |-> "fatal", runs |-> run.runs + 1, urls |-> <<>>,
                     successful |-> <<>>, failed |-> <<>>]
          /\ tasks' = <<>>
  /\ UNCHANGED <<disk, validManifest, failedDownloads>>
  /\ UNCHANGED <<cacheVars, clientVars, layerVars, pureVars>>

\* downloadFile(url) up to the request: a file that is present ends the
\* task, whatever the file holds.
downloadFile(i) ==
  /\ run.pc = "downloading"
  /\ tasks[i].pc = "queued"
  /\ Cardinality(activeTasks) < CONCURRENCY
  /\ LET file == basename(run.urls[i])
     IN IF file \in DOMAIN disk
        THEN tasks' = [tasks EXCEPT ![i] = [pc |-> "returned", status |-> "exists"]]
        ELSE tasks' = [tasks EXCEPT ![i] = [pc |-> "requested", status |-> "none"]]
  /\ UNCHANGED <<disk, run, validManifest, failedDownloads>>
  /\ UNCHANGED <<cacheVars, clientVars, layerVars, pureVars>>

\* The response arrives (or axios throws): 404 and the other statuses end
\* the task; 200 opens the write stream on outPath, which creates the file.
respond(i, answered) ==
  /\ run.pc = "downloading"
  /\ tasks[i].pc = "requested"
  /\ LET file == basename(run.urls[i])
     IN CASE answered = "404" ->
               /\ tasks' = [tasks EXCEPT ![i] = [pc |-> "returned", status |-> "404"]]
               /\ UNCHANGED disk
          [] answered = "403" ->
               /\ tasks' = [tasks EXCEPT ![i] = [pc |-> "returned", status |-> "error 403"]]
               /\ UNCHANGED disk
          [] answered = "throws" ->
               /\ tasks' = [tasks EXCEPT ![i] = [pc |-> "returned", status |-> "failed"]]
               /\ UNCHANGED disk
          [] answered = "200" ->
               /\ tasks' = [tasks EXCEPT ![i] = [pc |-> "writing", status |-> "none"]]
               /\ disk' = [f \in DOMAIN disk \cup {file} |->
                             IF f = file THEN "partial" ELSE disk[f]]
  /\ UNCHANGED <<run, validManifest, failedDownloads>>
  /\ UNCHANGED <<cacheVars, clientVars, layerVars, pureVars>>

\* writer "finish": the whole body was written.
writerFinish(i) ==
  /\ run.pc = "downloading"
  /\ tasks[i].pc = "writing"
  /\ disk' = [disk EXCEPT ![basename(run.urls[i])] = "complete"]
  /\ tasks' = [tasks EXCEPT ![i] = [pc |-> "returned", status |-> "ok"]]
  /\ UNCHANGED <<run, validManifest, failedDownloads>>
  /\ UNCHANGED <<cacheVars, clientVars, layerVars, pureVars>>

\* writer "error" part-way (the disk is full, the device fails): the promise
\* rejects, the catch returns a failed status, and nothing removes the file
\* written so far.
writerError(i) ==
  /\ run.pc = "downloading"
  /\ tasks[i].pc = "writing"
  /\ tasks' = [tasks EXCEPT ![i] = [pc |-> "returned", status |-> "failed"]]
  /\ UNCHANGED <<disk, run, validManifest, failedDownloads>>
  /\ UNCHANGED <<cacheVars, clientVars, layerVars, pureVars>>

\* The result {url, file, status} of task i.
resultOf(i) == [url |-> run.urls[i], file |-> basename(run.urls[i]), status |-> tasks[i].status]

isSuccess(r) == r.status = "ok" \/ r.status = "exists"

\* main() once every task has returned: the results in the order of the
\* tasks, split in two, and the two files written (failed_downloads.txt only
\* when a download failed).
writeManifests ==
  /\ run.pc = "downloading"
  /\ \A i \in DOMAIN tasks : tasks[i].pc = "returned"
  /\ LET results == [i \in 1..Len(tasks) |-> resultOf(i)]
         successful == SelectSeq(results, isSuccess)
         failed == SelectSeq(results, LAMBDA r : ~isSuccess(r))
     IN /\ run' = [run EXCEPT !.pc = "written", !.successful = successful, !.failed = failed]
        /\ validManifest' = [written |-> TRUE,
                             lines |-> [k \in 1..Len(successful) |-> successful[k].url]]
        /\ failedDownloads' =
             IF Len(failed) > 0
             THEN [written |-> TRUE,
                   lines |-> [k \in 1..Len(failed) |->
                                [file |-> failed[k].file, status |-> failed[k].status]]]
             ELSE failedDownloads
  /\ UNCHANGED <<disk, tasks>>
  /\ UNCHANGED <<cacheVars, clientVars, layerVars, pureVars>>

NextDownload ==
  \/ \E manifestFetched \in BOOLEAN : main(manifestFetched)
  \/ \E i \in DOMAIN tasks : downloadFile(i)
  \/ \E i \in DOMAIN tasks, answered \in Answers : respond(i, answered)
  \/ \E i \in DOMAIN tasks : writerFinish(i)
  \/ \E i \in DOMAIN tasks : writerError(i)
  \/ writeManifests

SpecDownload == InitDownload /\ [][NextDownload]_vars

\* C19 (as claimed): when a run has written its files, valid_manifest.txt
\* lists exactly the urls of the manifest whose file is on the disk in full
\* (so never a url whose download stopped part-way, in that run or in an
\* earlier one), and every url of the manifest is in exactly one of the
\* successful and the failed list.
C19_ValidManifestComplete ==
  run.pc = "written" =>
    /\ Range(validManifest.lines) =
         {u \in Range(run.urls) :
            basename(u) \in DOMAIN disk /\ disk[basename(u)] = "complete"}
    /\ LET ok == {r.url : r \in Range(run.successful)}
           ko == {r.url : r \in Range(run.failed)}
       IN ok \cap ko = {} /\ ok \cup ko = Range(run.urls)

====
